---- MODULE Spec2Model ----
(***************************************************************************)
(* Model of src/roadporrada.cpp: main() of the RoadPorrada bootstrap.      *)
(*                                                                         *)
(* The program is one thread that walks through main(); `pc` is the line   *)
(* of the next statement.  The windowing layer (GLFW) and the graphics     *)
(* layer (bgfx) are modelled by what the calls main() makes do to them:    *)
(* which resources are held, the window's close-requested flag, the cached *)
(* key state, the pending OS event queue and the configuration of view 0.  *)
(* The operating system is a second actor that posts events for the        *)
(* window while it exists.                                                 *)
(***************************************************************************)
EXTENDS Integers, Sequences, FiniteSets, TLC

(* ---- bounds ---------------------------------------------------------- *)
\* the frame loop is unbounded in the code; loop entry is capped here
MaxIter == 3
\* total number of OS events posted in one run
MaxEvents == 3
\* keys typed in the console during one run
MaxConsoleKeys == 2
\* frames run by each thread of ParallelGameLoop
MaxFrames == 3
\* calls of update_frame
MaxUpdateCalls == 3
\* commands executed through one CommandHistory
MaxCommands == 3
\* GL ids generated in one run of the handle wrappers
MaxHandles == 3

(* ---- program constants ----------------------------------------------- *)
WindowWidth == 800
WindowHeight == 600
BGFX_CLEAR_COLOR == 1
BGFX_CLEAR_DEPTH == 2
\* 0x303030ff
ClearRgba == 808464639
\* 1.0f
ClearDepth == 1
ClearStencil == 0

MsgGlfwInit == "Failed to initialize GLFW\n"
MsgCreateWindow == "Failed to create GLFW window\n"
MsgBgfxInit == "Failed to initialize bgfx\n"
MsgInitOk == "GLFW and bgfx initialized successfully!\n"
MsgPressAnyKey == "Press any key in the console to exit...\n"

(* ---- the environment's alphabet -------------------------------------- *)
\* events the OS can queue for the window
OSEvents == {"close", "esc_press", "esc_release", "key_other", "resize"}
\* size the user drags the window to
ResizedSize == <<1024, 768>>
\* the window object returned by glfwCreateWindow (nullptr is 0)
WindowPtrs == {1, 2}
NullPtr == 0

VARIABLES
    pc,            \* line of main() about to execute; "exited" after return
    exitStatus,    \* value returned by main(), meaningful once pc = "exited"
    acquired,      \* per resource: number of successful acquisitions
    released,      \* per resource: number of releases
    window,        \* GLFWwindow* held by main (NullPtr before creation)
    shouldClose,   \* the window's close-requested flag
    escKey,        \* GLFW's cached state of GLFW_KEY_ESCAPE: "PRESS"/"RELEASE"
    winSize,       \* current client size of the window
    pdNwh,         \* bgfx platform data: native window handle
    view0,         \* clear and viewport configuration of view 0
    calls,         \* every library call main() has made, in order
    stderrLog,     \* lines written to stderr
    stdoutLog,     \* lines written to stdout
    iters,         \* number of loop bodies entered
    failed,        \* which initialization step failed ("none" if none)
    osQueue,       \* OS events posted and not yet polled
    physEsc,       \* is the Escape key physically down
    nEvents,       \* OS events posted so far
    escPressIter,  \* value of iters when Escape was first pressed (-1: never)
    stdinPending,  \* keys typed in the console and not read by the program
    closeSeenIter, \* value of iters when a poll first delivered an OS close (-1: never)
    pgl,           \* ParallelGameLoop of the patterns reference: threads, barrier, buffers
    uf,            \* update_frame of the patterns reference: latch and the three threads
    hist,          \* CommandHistory of the patterns reference: stacks and entity positions
    gpu            \* VertexBuffer / GLHandle objects and the GL ids they own

progVars == <<pc, exitStatus, acquired, released, window, shouldClose, escKey,
              winSize, pdNwh, view0, calls, stderrLog, stdoutLog, iters, failed,
              closeSeenIter>>
envVars == <<osQueue, physEsc, nEvents, escPressIter, stdinPending>>
vars == <<pc, exitStatus, acquired, released, window, shouldClose, escKey,
          winSize, pdNwh, view0, calls, stderrLog, stdoutLog, iters, failed,
          osQueue, physEsc, nEvents, escPressIter, stdinPending, closeSeenIter,
          pgl, uf, hist, gpu>>

\* state of the snippets of src/modern-cpp-game-patterns.md; main() never touches it
snippetVars == <<pgl, uf, hist, gpu>>
\* state of main() and of its environment
mainVars == <<progVars, envVars>>

Resources == {"glfw", "window", "bgfx"}

\* a resource is held when it was acquired and not yet released
Held(r) == acquired[r] > released[r]

\* glfwGetWin32Window: the HWND of a window object
glfwGetWin32Window(w) == IF w = NullPtr THEN 0 ELSE 100 + w

UnsetView == [flags |-> 0, rgba |-> 0, depth |-> 0, stencil |-> 0,
              x |-> 0, y |-> 0, w |-> 0, h |-> 0]

(* ---- initial state of the patterns-reference snippets ----------------- *)

PglThreads == {"physics", "ai", "render"}
\* std::barrier<> frame_sync_{3}
BarrierCount == 3

\* ParallelGameLoop after construction, the three threads at their while
PglInitState ==
    [pc          |-> [t \in PglThreads |-> "while"],
     write_index |-> 0,
     data_idx    |-> 0,
     read_idx    |-> 0,
     arrived     |-> 0,
     gen         |-> 0,
     waitGen     |-> [t \in PglThreads |-> 0],
     frame       |-> [t \in PglThreads |-> 0],
     frameW      |-> <<>>,
     frameR      |-> <<>>]

UfThreads == {"main", "t1", "t2"}
\* std::latch work_done{2}
LatchCount == 2

\* before the first call of update_frame
UfInitState ==
    [pc    |-> [t \in UfThreads |-> "idle"],
     latch |-> 0,
     call  |-> 0,
     dt    |-> 0,
     order |-> <<>>]

\* frame times passed to update_frame
FrameTimes == {16, 33}

Entities == {1, 2}
Positions == {0, 1, 2}

\* an empty CommandHistory and the entities at the origin
HistInitState ==
    [undo_stack    |-> <<>>,
     redo_stack    |-> <<>>,
     pos           |-> [e \in Entities |-> 0],
     nExec         |-> 0,
     posBeforeLast |-> [e \in Entities |-> 0],
     onlyExecutes  |-> TRUE,
     lastOp        |-> "none",
     prevOp        |-> "none",
     snap          |-> [pos          |-> [e \in Entities |-> 0],
                        undo_stack   |-> <<>>,
                        redo_stack   |-> <<>>,
                        onlyExecutes |-> TRUE]]

\* vertices.size() of the spans given to the VertexBuffer constructor
VertexCounts == {3, 4}

VbSlots == {"vb1", "vb2"}
GlSlots == {"gl1", "gl2"}
Slots == VbSlots \cup GlSlots

\* storage for the wrapper objects, none constructed yet
GpuInitState ==
    [obj     |-> [o \in Slots |->
                    [alive |-> FALSE, id |-> 0, size |-> 0, moved |-> FALSE]],
     nextId  |-> 1,
     deleted |-> [i \in 1..MaxHandles |-> 0],
     lastOp  |-> "none"]

Init ==
    /\ pgl = PglInitState
    /\ uf = UfInitState
    /\ hist = HistInitState
    /\ gpu = GpuInitState
    /\ pc = "L11"
    /\ exitStatus = 0
    /\ acquired = [r \in Resources |-> 0]
    /\ released = [r \in Resources |-> 0]
    /\ window = NullPtr
    /\ shouldClose = FALSE
    /\ escKey = "RELEASE"
    /\ winSize = <<0, 0>>
    /\ pdNwh = 0
    /\ view0 = UnsetView
    /\ calls = <<>>
    /\ stderrLog = <<>>
    /\ stdoutLog = <<>>
    /\ iters = 0
    /\ failed = "none"
    /\ osQueue = <<>>
    /\ physEsc = FALSE
    /\ nEvents = 0
    /\ escPressIter = -1
    /\ stdinPending = 0
    /\ closeSeenIter = -1

(* ---- initialization: lines 11-50 ------------------------------------- *)

\* mutant of GlfwInit: the failure branch lacks its return and falls through
GlfwInit_FallThrough ==
    /\ pc = "L11"
    /\ \E ok \in BOOLEAN :
         IF ok
         THEN /\ acquired' = [acquired EXCEPT !["glfw"] = @ + 1]
              /\ calls' = Append(calls, "glfwInit")
              /\ UNCHANGED <<stderrLog, failed>>
         ELSE /\ calls' = calls \o <<"glfwInit", "fprintf">>
              /\ stderrLog' = Append(stderrLog, MsgGlfwInit)
              /\ failed' = "glfw"
              /\ UNCHANGED acquired
    /\ pc' = "L17"
    /\ UNCHANGED <<exitStatus, released, window, shouldClose, escKey, winSize, pdNwh,
                   view0, stdoutLog, iters, closeSeenIter>>
    /\ UNCHANGED envVars
    /\ UNCHANGED snippetVars

\* lines 11-15: if (!glfwInit()) { fprintf; return 1; }
GlfwInit ==
    /\ pc = "L11"
    /\ \E ok \in BOOLEAN :
         IF ok
         THEN /\ acquired' = [acquired EXCEPT !["glfw"] = @ + 1]
              /\ calls' = Append(calls, "glfwInit")
              /\ pc' = "L17"
              /\ UNCHANGED <<stderrLog, exitStatus, failed>>
         ELSE /\ calls' = calls \o <<"glfwInit", "fprintf">>
              /\ stderrLog' = Append(stderrLog, MsgGlfwInit)
              /\ failed' = "glfw"
              /\ exitStatus' = 1
              /\ pc' = "exited"
              /\ UNCHANGED acquired
    /\ UNCHANGED <<released, window, shouldClose, escKey, winSize, pdNwh, view0,
                   stdoutLog, iters, closeSeenIter>>
    /\ UNCHANGED envVars
    /\ UNCHANGED snippetVars

\* lines 17-21: glfwWindowHint; glfwCreateWindow(800, 600, ...); if (!window) fprintf
CreateWindow ==
    /\ pc = "L17"
    /\ \E w \in WindowPtrs \cup {NullPtr} :
         /\ window' = w
         /\ IF w # NullPtr
            THEN /\ acquired' = [acquired EXCEPT !["window"] = @ + 1]
                 /\ winSize' = <<WindowWidth, WindowHeight>>
                 /\ calls' = calls \o <<"glfwWindowHint", "glfwCreateWindow">>
                 /\ pc' = "L26"
                 /\ UNCHANGED <<stderrLog, failed>>
            ELSE /\ calls' = calls \o <<"glfwWindowHint", "glfwCreateWindow", "fprintf">>
                 /\ stderrLog' = Append(stderrLog, MsgCreateWindow)
                 /\ failed' = "window"
                 /\ pc' = "L22"
                 /\ UNCHANGED <<acquired, winSize>>
    /\ UNCHANGED <<exitStatus, released, shouldClose, escKey, pdNwh, view0,
                   stdoutLog, iters, closeSeenIter>>
    /\ UNCHANGED envVars
    /\ UNCHANGED snippetVars

\* glfwTerminate(): destroys any window still open, then releases the library
GlfwTerminateEffect ==
    /\ released' = [r \in Resources |->
                      IF r = "glfw" THEN released[r] + 1
                      ELSE IF r = "window" /\ Held("window") THEN released[r] + 1
                      ELSE released[r]]
    /\ calls' = Append(calls, "glfwTerminate")

\* mutant of ErrWindowTerminate: returns 1 without glfwTerminate()
ErrWindowTerminate_Missing ==
    /\ pc = "L22"
    /\ exitStatus' = 1
    /\ pc' = "exited"
    /\ UNCHANGED <<acquired, released, calls, window, shouldClose, escKey, winSize,
                   pdNwh, view0, stderrLog, stdoutLog, iters, failed, closeSeenIter>>
    /\ UNCHANGED envVars
    /\ UNCHANGED snippetVars

\* mutant of ErrWindowTerminate: the error path runs the whole teardown,
\* shutting down a context and destroying a window that were never created
ErrWindowTerminate_FullShutdown ==
    /\ pc = "L22"
    /\ released' = [r \in Resources |-> released[r] + 1]
    /\ calls' = calls \o <<"bgfx::shutdown", "glfwDestroyWindow", "glfwTerminate">>
    /\ exitStatus' = 1
    /\ pc' = "exited"
    /\ UNCHANGED <<acquired, window, shouldClose, escKey, winSize, pdNwh, view0,
                   stderrLog, stdoutLog, iters, failed, closeSeenIter>>
    /\ UNCHANGED envVars
    /\ UNCHANGED snippetVars

\* lines 22-23: glfwTerminate(); return 1;
ErrWindowTerminate ==
    /\ pc = "L22"
    /\ GlfwTerminateEffect
    /\ exitStatus' = 1
    /\ pc' = "exited"
    /\ UNCHANGED <<acquired, window, shouldClose, escKey, winSize, pdNwh, view0,
                   stderrLog, stdoutLog, iters, failed, closeSeenIter>>
    /\ UNCHANGED envVars
    /\ UNCHANGED snippetVars

\* mutant of SetPlatformData: pd.nwh is left unset
SetPlatformData_Unbound ==
    /\ pc = "L26"
    /\ pdNwh' = pdNwh
    /\ calls' = calls \o <<"glfwGetWin32Window", "bgfx::setPlatformData">>
    /\ pc' = "L30"
    /\ UNCHANGED <<exitStatus, acquired, released, window, shouldClose, escKey,
                   winSize, view0, stderrLog, stdoutLog, iters, failed, closeSeenIter>>
    /\ UNCHANGED envVars
    /\ UNCHANGED snippetVars

\* lines 26-28: pd.nwh = glfwGetWin32Window(window); bgfx::setPlatformData(pd);
SetPlatformData ==
    /\ pc = "L26"
    /\ pdNwh' = glfwGetWin32Window(window)
    /\ calls' = calls \o <<"glfwGetWin32Window", "bgfx::setPlatformData">>
    /\ pc' = "L30"
    /\ UNCHANGED <<exitStatus, acquired, released, window, shouldClose, escKey,
                   winSize, view0, stderrLog, stdoutLog, iters, failed, closeSeenIter>>
    /\ UNCHANGED envVars
    /\ UNCHANGED snippetVars

\* mutant of BgfxInit: a failed init is tried once more with another renderer
\* (the fallback of the commented-out block, lines 85-98)
BgfxInit_RetryFallback ==
    /\ pc = "L30"
    /\ \E ok \in BOOLEAN :
         IF ok
         THEN /\ acquired' = [acquired EXCEPT !["bgfx"] = @ + 1]
              /\ calls' = Append(calls, "bgfx::init")
              /\ pc' = "L46"
              /\ UNCHANGED <<stderrLog, failed>>
         ELSE /\ calls' = calls \o <<"bgfx::init", "fprintf">>
              /\ stderrLog' = Append(stderrLog, MsgBgfxInit)
              /\ IF \E i \in 1..Len(calls) : calls[i] = "bgfx::init"
                 THEN failed' = "bgfx" /\ pc' = "L41"
                 ELSE failed' = failed /\ pc' = "L30"
              /\ UNCHANGED acquired
    /\ UNCHANGED <<exitStatus, released, window, shouldClose, escKey, winSize,
                   pdNwh, view0, stdoutLog, iters, closeSeenIter>>
    /\ UNCHANGED envVars
    /\ UNCHANGED snippetVars

\* mutant of BgfxInit: the init structure carries its own, empty, platform data
BgfxInit_OverridesHandle ==
    /\ pc = "L30"
    /\ \E ok \in BOOLEAN :
         IF ok
         THEN /\ acquired' = [acquired EXCEPT !["bgfx"] = @ + 1]
              /\ calls' = Append(calls, "bgfx::init")
              /\ pdNwh' = 0
              /\ pc' = "L46"
              /\ UNCHANGED <<stderrLog, failed>>
         ELSE /\ calls' = calls \o <<"bgfx::init", "fprintf">>
              /\ stderrLog' = Append(stderrLog, MsgBgfxInit)
              /\ failed' = "bgfx"
              /\ pc' = "L41"
              /\ UNCHANGED <<acquired, pdNwh>>
    /\ UNCHANGED <<exitStatus, released, window, shouldClose, escKey, winSize,
                   view0, stdoutLog, iters, closeSeenIter>>
    /\ UNCHANGED envVars
    /\ UNCHANGED snippetVars

\* mutant of BgfxInit: the failure branch reports the error and carries on
BgfxInit_FallThrough ==
    /\ pc = "L30"
    /\ \E ok \in BOOLEAN :
         IF ok
         THEN /\ acquired' = [acquired EXCEPT !["bgfx"] = @ + 1]
              /\ calls' = Append(calls, "bgfx::init")
              /\ UNCHANGED <<stderrLog, failed>>
         ELSE /\ calls' = calls \o <<"bgfx::init", "fprintf">>
              /\ stderrLog' = Append(stderrLog, MsgBgfxInit)
              /\ failed' = "bgfx"
              /\ UNCHANGED acquired
    /\ pc' = "L46"
    /\ UNCHANGED <<exitStatus, released, window, shouldClose, escKey, winSize,
                   pdNwh, view0, stdoutLog, iters, closeSeenIter>>
    /\ UNCHANGED envVars
    /\ UNCHANGED snippetVars

\* lines 30-40: bgfx::Init init; ...; if (!bgfx::init(init)) fprintf
BgfxInit ==
    /\ pc = "L30"
    /\ \E ok \in BOOLEAN :
         IF ok
         THEN /\ acquired' = [acquired EXCEPT !["bgfx"] = @ + 1]
              /\ calls' = Append(calls, "bgfx::init")
              /\ pc' = "L46"
              /\ UNCHANGED <<stderrLog, failed>>
         ELSE /\ calls' = calls \o <<"bgfx::init", "fprintf">>
              /\ stderrLog' = Append(stderrLog, MsgBgfxInit)
              /\ failed' = "bgfx"
              /\ pc' = "L41"
              /\ UNCHANGED acquired
    /\ UNCHANGED <<exitStatus, released, window, shouldClose, escKey, winSize,
                   pdNwh, view0, stdoutLog, iters, closeSeenIter>>
    /\ UNCHANGED envVars
    /\ UNCHANGED snippetVars

\* glfwDestroyWindow(window)
GlfwDestroyWindowEffect ==
    /\ released' = [released EXCEPT !["window"] = @ + 1]
    /\ calls' = Append(calls, "glfwDestroyWindow")

\* mutant of ErrBgfxDestroyWindow: the window is not destroyed on this path
ErrBgfxDestroyWindow_Skipped ==
    /\ pc = "L41"
    /\ pc' = "L42"
    /\ UNCHANGED <<exitStatus, acquired, released, calls, window, shouldClose, escKey,
                   winSize, pdNwh, view0, stderrLog, stdoutLog, iters, failed,
                   closeSeenIter>>
    /\ UNCHANGED envVars
    /\ UNCHANGED snippetVars

\* line 41: glfwDestroyWindow(window);
ErrBgfxDestroyWindow ==
    /\ pc = "L41"
    /\ GlfwDestroyWindowEffect
    /\ pc' = "L42"
    /\ UNCHANGED <<exitStatus, acquired, window, shouldClose, escKey, winSize,
                   pdNwh, view0, stderrLog, stdoutLog, iters, failed, closeSeenIter>>
    /\ UNCHANGED envVars
    /\ UNCHANGED snippetVars

\* mutant of ErrBgfxTerminate: the error path returns 0
ErrBgfxTerminate_ReturnsZero ==
    /\ pc = "L42"
    /\ GlfwTerminateEffect
    /\ exitStatus' = 0
    /\ pc' = "exited"
    /\ UNCHANGED <<acquired, window, shouldClose, escKey, winSize, pdNwh, view0,
                   stderrLog, stdoutLog, iters, failed, closeSeenIter>>
    /\ UNCHANGED envVars
    /\ UNCHANGED snippetVars

\* lines 42-43: glfwTerminate(); return 1;
ErrBgfxTerminate ==
    /\ pc = "L42"
    /\ GlfwTerminateEffect
    /\ exitStatus' = 1
    /\ pc' = "exited"
    /\ UNCHANGED <<acquired, window, shouldClose, escKey, winSize, pdNwh, view0,
                   stderrLog, stdoutLog, iters, failed, closeSeenIter>>
    /\ UNCHANGED envVars
    /\ UNCHANGED snippetVars

\* line 46: bgfx::setViewClear(0, BGFX_CLEAR_COLOR | BGFX_CLEAR_DEPTH, 0x303030ff, 1.0f, 0);
SetViewClear ==
    /\ pc = "L46"
    /\ view0' = [view0 EXCEPT !.flags = BGFX_CLEAR_COLOR + BGFX_CLEAR_DEPTH,
                              !.rgba = ClearRgba,
                              !.depth = ClearDepth,
                              !.stencil = ClearStencil]
    /\ calls' = Append(calls, "bgfx::setViewClear")
    /\ pc' = "L47"
    /\ UNCHANGED <<exitStatus, acquired, released, window, shouldClose, escKey,
                   winSize, pdNwh, stderrLog, stdoutLog, iters, failed, closeSeenIter>>
    /\ UNCHANGED envVars
    /\ UNCHANGED snippetVars

\* line 47: bgfx::setViewRect(0, 0, 0, 800, 600);
SetViewRect ==
    /\ pc = "L47"
    /\ view0' = [view0 EXCEPT !.x = 0, !.y = 0, !.w = WindowWidth, !.h = WindowHeight]
    /\ calls' = Append(calls, "bgfx::setViewRect")
    /\ pc' = "L49"
    /\ UNCHANGED <<exitStatus, acquired, released, window, shouldClose, escKey,
                   winSize, pdNwh, stderrLog, stdoutLog, iters, failed, closeSeenIter>>
    /\ UNCHANGED envVars
    /\ UNCHANGED snippetVars

\* lines 49-50: the two printf calls
PrintBanner ==
    /\ pc = "L49"
    /\ stdoutLog' = stdoutLog \o <<MsgInitOk, MsgPressAnyKey>>
    /\ calls' = calls \o <<"printf", "printf">>
    /\ pc' = "L52"
    /\ UNCHANGED <<exitStatus, acquired, released, window, shouldClose, escKey,
                   winSize, pdNwh, view0, stderrLog, iters, failed, closeSeenIter>>
    /\ UNCHANGED envVars
    /\ UNCHANGED snippetVars

(* ---- the windowing layer's event processing --------------------------- *)

\* what the window callbacks inside glfwPollEvents do with one OS event
ApplyEvent(st, e) ==
    CASE e = "close"       -> [st EXCEPT !.shouldClose = TRUE]
      [] e = "esc_press"   -> [st EXCEPT !.escKey = "PRESS"]
      [] e = "esc_release" -> [st EXCEPT !.escKey = "RELEASE"]
      [] e = "resize"      -> [st EXCEPT !.winSize = ResizedSize]
      [] OTHER             -> st

\* glfwPollEvents processes every queued event, oldest first
RECURSIVE DrainEvents(_, _)
DrainEvents(st, q) ==
    IF q = <<>> THEN st ELSE DrainEvents(ApplyEvent(st, Head(q)), Tail(q))

InSeq(e, q) == \E i \in 1..Len(q) : q[i] = e

(* ---- the frame loop: lines 52-63 ------------------------------------- *)

\* mutant of LoopCond: the close-requested flag is not consulted
LoopCond_IgnoresFlag ==
    /\ pc = "L52"
    /\ calls' = Append(calls, "glfwWindowShouldClose")
    /\ IF iters >= MaxIter
       THEN /\ pc' = "L65"
            /\ UNCHANGED iters
       ELSE /\ iters' = iters + 1
            /\ pc' = "L54"
    /\ UNCHANGED <<exitStatus, acquired, released, window, shouldClose, escKey,
                   winSize, pdNwh, view0, stderrLog, stdoutLog, failed, closeSeenIter>>
    /\ UNCHANGED envVars
    /\ UNCHANGED snippetVars

\* mutant of LoopCond: the loop also stops after a fixed number of frames
LoopCond_FrameLimit ==
    /\ pc = "L52"
    /\ calls' = Append(calls, "glfwWindowShouldClose")
    /\ IF shouldClose \/ iters >= 2
       THEN /\ pc' = "L65"
            /\ UNCHANGED iters
       ELSE /\ iters < MaxIter
            /\ iters' = iters + 1
            /\ pc' = "L54"
    /\ UNCHANGED <<exitStatus, acquired, released, window, shouldClose, escKey,
                   winSize, pdNwh, view0, stderrLog, stdoutLog, failed, closeSeenIter>>
    /\ UNCHANGED envVars
    /\ UNCHANGED snippetVars

\* line 52: while (!glfwWindowShouldClose(window))
LoopCond ==
    /\ pc = "L52"
    /\ calls' = Append(calls, "glfwWindowShouldClose")
    /\ IF shouldClose
       THEN /\ pc' = "L65"
            /\ UNCHANGED iters
       ELSE /\ iters < MaxIter
            /\ iters' = iters + 1
            /\ pc' = "L54"
    /\ UNCHANGED <<exitStatus, acquired, released, window, shouldClose, escKey,
                   winSize, pdNwh, view0, stderrLog, stdoutLog, failed, closeSeenIter>>
    /\ UNCHANGED envVars
    /\ UNCHANGED snippetVars

\* line 54: glfwPollEvents();
PollEvents ==
    /\ pc = "L54"
    /\ LET st == DrainEvents([shouldClose |-> shouldClose, escKey |-> escKey,
                              winSize |-> winSize], osQueue)
       IN /\ shouldClose' = st.shouldClose
          /\ escKey' = st.escKey
          /\ winSize' = st.winSize
    /\ closeSeenIter' = IF closeSeenIter = -1 /\ InSeq("close", osQueue)
                        THEN iters ELSE closeSeenIter
    /\ osQueue' = <<>>
    /\ calls' = Append(calls, "glfwPollEvents")
    /\ pc' = "L56"
    /\ UNCHANGED <<exitStatus, acquired, released, window, pdNwh, view0,
                   stderrLog, stdoutLog, iters, failed>>
    /\ UNCHANGED <<physEsc, nEvents, escPressIter, stdinPending>>
    /\ UNCHANGED snippetVars

\* mutant of Touch: view 0 is not touched before the frame is submitted
Touch_Skipped ==
    /\ pc = "L56"
    /\ pc' = "L57"
    /\ UNCHANGED <<exitStatus, acquired, released, calls, window, shouldClose, escKey,
                   winSize, pdNwh, view0, stderrLog, stdoutLog, iters, failed,
                   closeSeenIter>>
    /\ UNCHANGED envVars
    /\ UNCHANGED snippetVars

\* mutant of Touch: the iteration is abandoned (break) when the poll has
\* raised the close-requested flag
Touch_BreakOnClose ==
    /\ pc = "L56"
    /\ IF shouldClose
       THEN /\ pc' = "L65"
            /\ UNCHANGED calls
       ELSE /\ pc' = "L57"
            /\ calls' = Append(calls, "bgfx::touch")
    /\ UNCHANGED <<exitStatus, acquired, released, window, shouldClose, escKey,
                   winSize, pdNwh, view0, stderrLog, stdoutLog, iters, failed,
                   closeSeenIter>>
    /\ UNCHANGED envVars
    /\ UNCHANGED snippetVars

\* line 56: bgfx::touch(0);
Touch ==
    /\ pc = "L56"
    /\ calls' = Append(calls, "bgfx::touch")
    /\ pc' = "L57"
    /\ UNCHANGED <<exitStatus, acquired, released, window, shouldClose, escKey,
                   winSize, pdNwh, view0, stderrLog, stdoutLog, iters, failed,
                   closeSeenIter>>
    /\ UNCHANGED envVars
    /\ UNCHANGED snippetVars

\* mutant of Frame: the viewport is made to follow the window's current size
Frame_TracksWindowSize ==
    /\ pc = "L57"
    /\ view0' = [view0 EXCEPT !.w = winSize[1], !.h = winSize[2]]
    /\ calls' = Append(calls, "bgfx::frame")
    /\ pc' = "L59"
    /\ UNCHANGED <<exitStatus, acquired, released, window, shouldClose, escKey,
                   winSize, pdNwh, stderrLog, stdoutLog, iters, failed,
                   closeSeenIter>>
    /\ UNCHANGED envVars
    /\ UNCHANGED snippetVars

\* mutant of Frame: no frame is submitted once the window is closing
Frame_SkippedWhenClosing ==
    /\ pc = "L57"
    /\ calls' = IF shouldClose THEN calls ELSE Append(calls, "bgfx::frame")
    /\ pc' = "L59"
    /\ UNCHANGED <<exitStatus, acquired, released, window, shouldClose, escKey,
                   winSize, pdNwh, view0, stderrLog, stdoutLog, iters, failed,
                   closeSeenIter>>
    /\ UNCHANGED envVars
    /\ UNCHANGED snippetVars

\* line 57: bgfx::frame();
Frame ==
    /\ pc = "L57"
    /\ calls' = Append(calls, "bgfx::frame")
    /\ pc' = "L59"
    /\ UNCHANGED <<exitStatus, acquired, released, window, shouldClose, escKey,
                   winSize, pdNwh, view0, stderrLog, stdoutLog, iters, failed,
                   closeSeenIter>>
    /\ UNCHANGED envVars
    /\ UNCHANGED snippetVars

\* mutant of GetKey: the check follows the physical key instead of the state
\* glfwPollEvents last recorded
GetKey_PhysicalState ==
    /\ pc = "L59"
    /\ calls' = Append(calls, "glfwGetKey")
    /\ pc' = IF physEsc THEN "L61" ELSE "L52"
    /\ UNCHANGED <<exitStatus, acquired, released, window, shouldClose, escKey,
                   winSize, pdNwh, view0, stderrLog, stdoutLog, iters, failed,
                   closeSeenIter>>
    /\ UNCHANGED envVars
    /\ UNCHANGED snippetVars

\* mutant of GetKey: the flag is written with the outcome of the comparison,
\* glfwSetWindowShouldClose(window, key == GLFW_PRESS)
GetKey_ClearsOnRelease ==
    /\ pc = "L59"
    /\ calls' = calls \o <<"glfwGetKey", "glfwSetWindowShouldClose">>
    /\ shouldClose' = (escKey = "PRESS")
    /\ pc' = "L52"
    /\ UNCHANGED <<exitStatus, acquired, released, window, escKey,
                   winSize, pdNwh, view0, stderrLog, stdoutLog, iters, failed,
                   closeSeenIter>>
    /\ UNCHANGED envVars
    /\ UNCHANGED snippetVars

\* line 59: if (glfwGetKey(window, GLFW_KEY_ESCAPE) == GLFW_PRESS)
GetKey ==
    /\ pc = "L59"
    /\ calls' = Append(calls, "glfwGetKey")
    /\ pc' = IF escKey = "PRESS" THEN "L61" ELSE "L52"
    /\ UNCHANGED <<exitStatus, acquired, released, window, shouldClose, escKey,
                   winSize, pdNwh, view0, stderrLog, stdoutLog, iters, failed,
                   closeSeenIter>>
    /\ UNCHANGED envVars
    /\ UNCHANGED snippetVars

\* mutant of SetShouldClose: the flag is passed as GLFW_FALSE
SetShouldClose_NoSet ==
    /\ pc = "L61"
    /\ shouldClose' = FALSE
    /\ calls' = Append(calls, "glfwSetWindowShouldClose")
    /\ pc' = "L52"
    /\ UNCHANGED <<exitStatus, acquired, released, window, escKey,
                   winSize, pdNwh, view0, stderrLog, stdoutLog, iters, failed,
                   closeSeenIter>>
    /\ UNCHANGED envVars
    /\ UNCHANGED snippetVars

\* line 61: glfwSetWindowShouldClose(window, GLFW_TRUE);
SetShouldClose ==
    /\ pc = "L61"
    /\ shouldClose' = TRUE
    /\ calls' = Append(calls, "glfwSetWindowShouldClose")
    /\ pc' = "L52"
    /\ UNCHANGED <<exitStatus, acquired, released, window, escKey,
                   winSize, pdNwh, view0, stderrLog, stdoutLog, iters, failed,
                   closeSeenIter>>
    /\ UNCHANGED envVars
    /\ UNCHANGED snippetVars

(* ---- teardown: lines 65-69 ------------------------------------------- *)

\* mutant of BgfxShutdown: the window is destroyed where the context should be shut down
BgfxShutdown_WindowFirst ==
    /\ pc = "L65"
    /\ GlfwDestroyWindowEffect
    /\ pc' = "L66"
    /\ UNCHANGED <<exitStatus, acquired, window, shouldClose, escKey, winSize,
                   pdNwh, view0, stderrLog, stdoutLog, iters, failed, closeSeenIter>>
    /\ UNCHANGED envVars
    /\ UNCHANGED snippetVars

\* line 65: bgfx::shutdown();
BgfxShutdown ==
    /\ pc = "L65"
    /\ released' = [released EXCEPT !["bgfx"] = @ + 1]
    /\ calls' = Append(calls, "bgfx::shutdown")
    /\ pc' = "L66"
    /\ UNCHANGED <<exitStatus, acquired, window, shouldClose, escKey, winSize,
                   pdNwh, view0, stderrLog, stdoutLog, iters, failed, closeSeenIter>>
    /\ UNCHANGED envVars
    /\ UNCHANGED snippetVars

\* line 66: glfwDestroyWindow(window);
DestroyWindow ==
    /\ pc = "L66"
    /\ GlfwDestroyWindowEffect
    /\ pc' = "L67"
    /\ UNCHANGED <<exitStatus, acquired, window, shouldClose, escKey, winSize,
                   pdNwh, view0, stderrLog, stdoutLog, iters, failed, closeSeenIter>>
    /\ UNCHANGED envVars
    /\ UNCHANGED snippetVars

\* mutant of Terminate: returns 0 without glfwTerminate()
Terminate_Missing ==
    /\ pc = "L67"
    /\ exitStatus' = 0
    /\ pc' = "exited"
    /\ UNCHANGED <<acquired, released, calls, window, shouldClose, escKey, winSize,
                   pdNwh, view0, stderrLog, stdoutLog, iters, failed, closeSeenIter>>
    /\ UNCHANGED envVars
    /\ UNCHANGED snippetVars

\* lines 67-69: glfwTerminate(); return 0;
Terminate ==
    /\ pc = "L67"
    /\ GlfwTerminateEffect
    /\ exitStatus' = 0
    /\ pc' = "exited"
    /\ UNCHANGED <<acquired, window, shouldClose, escKey, winSize, pdNwh, view0,
                   stderrLog, stdoutLog, iters, failed, closeSeenIter>>
    /\ UNCHANGED envVars
    /\ UNCHANGED snippetVars

(* ---- the operating system -------------------------------------------- *)

\* the OS queues an event for the window; a key goes down before it goes up
OSPost ==
    /\ pc # "exited"
    /\ Held("window")
    /\ nEvents < MaxEvents
    /\ \E e \in OSEvents :
         /\ e = "esc_press" => ~physEsc
         /\ e = "esc_release" => physEsc
         /\ osQueue' = Append(osQueue, e)
         /\ physEsc' = IF e = "esc_press" THEN TRUE
                       ELSE IF e = "esc_release" THEN FALSE ELSE physEsc
         /\ escPressIter' = IF e = "esc_press" /\ escPressIter = -1
                            THEN iters ELSE escPressIter
    /\ nEvents' = nEvents + 1
    /\ UNCHANGED stdinPending
    /\ UNCHANGED progVars
    /\ UNCHANGED snippetVars

\* the user types a key in the console the program was started from; main()
\* contains no read of stdin, so the key stays in the terminal's buffer
ConsoleKeyPress ==
    /\ pc # "exited"
    /\ stdinPending < MaxConsoleKeys
    /\ stdinPending' = stdinPending + 1
    /\ UNCHANGED <<osQueue, physEsc, nEvents, escPressIter>>
    /\ UNCHANGED progVars
    /\ UNCHANGED snippetVars

Next ==
    \/ GlfwInit
    \/ CreateWindow
    \/ ErrWindowTerminate
    \/ SetPlatformData
    \/ BgfxInit
    \/ ErrBgfxDestroyWindow
    \/ ErrBgfxTerminate
    \/ SetViewClear
    \/ SetViewRect
    \/ PrintBanner
    \/ LoopCond
    \/ PollEvents
    \/ Touch
    \/ Frame
    \/ GetKey
    \/ SetShouldClose
    \/ BgfxShutdown
    \/ DestroyWindow
    \/ Terminate
    \/ OSPost

Spec == Init /\ [][Next]_vars

\* the program together with a user who also types in the console
NextConsole ==
    \/ Next
    \/ ConsoleKeyPress

ConsoleSpec == Init /\ [][NextConsole]_vars

TypeOK ==
    /\ pc \in {"L11", "L17", "L22", "L26", "L30", "L41", "L42", "L46", "L47",
               "L49", "L52", "L54", "L56", "L57", "L59", "L61", "L65", "L66",
               "L67", "exited"}
    /\ exitStatus \in {0, 1}
    /\ shouldClose \in BOOLEAN
    /\ escKey \in {"PRESS", "RELEASE"}
    /\ iters \in 0..MaxIter
    /\ failed \in {"none", "glfw", "window", "bgfx"}
    /\ nEvents \in 0..MaxEvents

(* ---- helpers over the call trace -------------------------------------- *)

Count(name) == Cardinality({i \in 1..Len(calls) : calls[i] = name})

Called(name) == \E i \in 1..Len(calls) : calls[i] = name

\* the last n calls made (the whole trace when it is shorter)
LastCalls(n) ==
    IF Len(calls) <= n THEN calls ELSE SubSeq(calls, Len(calls) - n + 1, Len(calls))

\* every call of a precedes every call of b
AllBefore(a, b) ==
    \A i, j \in 1..Len(calls) : (calls[i] = a /\ calls[j] = b) => i < j

FullTeardown == <<"bgfx::shutdown", "glfwDestroyWindow", "glfwTerminate">>

Exited == pc = "exited"

(* ======================================================================= *)
(* Properties                                                              *)
(* ======================================================================= *)

\* C1: on every exit path each resource acquired before the exit point is
\* released exactly once before the process exits, and a resource that was
\* never acquired is never released (no leak, no double release).
C1_ReleasedExactlyOnce ==
    /\ \A r \in Resources : released[r] <= acquired[r] /\ acquired[r] <= 1
    /\ Count("bgfx::shutdown") <= acquired["bgfx"]
    /\ Count("glfwDestroyWindow") <= acquired["window"]
    /\ Count("glfwTerminate") <= acquired["glfw"]
    /\ Exited =>
         /\ \A r \in Resources : released[r] = acquired[r]
         /\ Count("bgfx::shutdown") = acquired["bgfx"]
         /\ Count("glfwDestroyWindow") = acquired["window"]
         /\ Count("glfwTerminate") = acquired["glfw"]

\* the graphics-init failure path has exited: two resources acquired, one never
C1_Witness ==
    /\ Exited
    /\ failed = "bgfx"
    /\ acquired = [r \in Resources |-> IF r = "bgfx" THEN 0 ELSE 1]
    /\ released = acquired

\* C2: releases happen in strict reverse order of acquisition (graphics
\* context, then window, then windowing layer), and once the loop has reached
\* Closing the full three-step teardown runs in that order before exit.
C2_ReverseOrder ==
    /\ released["window"] > 0 => ~Held("bgfx")
    /\ released["glfw"] > 0 => (~Held("window") /\ ~Held("bgfx"))
    /\ AllBefore("bgfx::shutdown", "glfwDestroyWindow")
    /\ AllBefore("glfwDestroyWindow", "glfwTerminate")
    /\ AllBefore("bgfx::shutdown", "glfwTerminate")
    /\ pc = "L66" => LastCalls(1) = <<"bgfx::shutdown">>
    /\ pc = "L67" => LastCalls(2) = <<"bgfx::shutdown", "glfwDestroyWindow">>
    /\ (Exited /\ Called("glfwWindowShouldClose")) => LastCalls(3) = FullTeardown

\* the loop was left and the process has exited after the teardown
C2_Witness ==
    /\ Exited
    /\ iters >= 1
    /\ released = [r \in Resources |-> 1]

\* C3: the graphics context is live only while a window with a bound native
\* handle exists; it is initialized after the window is created and its
\* handle bound, and is torn down before the window is destroyed.
C3_ContextWithinWindow ==
    /\ Held("bgfx") =>
         /\ Held("window")
         /\ window # NullPtr
         /\ pdNwh # 0
         /\ pdNwh = glfwGetWin32Window(window)
    /\ AllBefore("glfwCreateWindow", "bgfx::init")
    /\ AllBefore("bgfx::setPlatformData", "bgfx::init")
    /\ Called("bgfx::init") => (Called("glfwCreateWindow") /\ Called("bgfx::setPlatformData"))
    /\ (Called("glfwDestroyWindow") /\ acquired["bgfx"] > 0) => released["bgfx"] > 0

\* the window has been destroyed after a context had been live
C3_Witness ==
    /\ acquired["bgfx"] = 1
    /\ released["bgfx"] = 1
    /\ released["window"] = 1
    /\ pc = "L67"

\* C4: if windowing-layer initialization fails the process prints an error,
\* exits with status 1 and attempts no further initialization.
C4_WindowingInitFailure ==
    failed = "glfw" =>
        /\ Exited
        /\ exitStatus = 1
        /\ stderrLog = <<MsgGlfwInit>>
        /\ calls = <<"glfwInit", "fprintf">>
        /\ \A r \in Resources : acquired[r] = 0 /\ released[r] = 0
        /\ window = NullPtr
        /\ iters = 0

C4_Witness == failed = "glfw" /\ Exited /\ Len(stderrLog) = 1

BgfxCalls == {"bgfx::setPlatformData", "bgfx::init", "bgfx::setViewClear",
              "bgfx::setViewRect", "bgfx::touch", "bgfx::frame", "bgfx::shutdown"}

\* C5: if window creation fails after the windowing layer was initialized,
\* the windowing layer is terminated before the process exits with status 1
\* and the graphics context is never bound, initialized or shut down.
C5_WindowCreationFailure ==
    failed = "window" =>
        /\ pc \in {"L22", "exited"}
        /\ acquired["glfw"] = 1
        /\ \A i \in 1..Len(calls) : calls[i] \notin BgfxCalls
        /\ pdNwh = 0
        /\ acquired["bgfx"] = 0 /\ released["bgfx"] = 0
        /\ pc = "L22" => released["glfw"] = 0
        /\ Exited =>
             /\ exitStatus = 1
             /\ released["glfw"] = 1
             /\ LastCalls(1) = <<"glfwTerminate">>

C5_Witness == failed = "window" /\ Exited /\ released["glfw"] = 1

\* C6: if graphics-context initialization fails the window is destroyed and
\* then the windowing layer is terminated, before the process exits with
\* status 1; the loop is never entered and no clear/viewport configuration,
\* touch, frame submission or graphics shutdown is performed.
C6_GraphicsInitFailure ==
    failed = "bgfx" =>
        /\ pc \in {"L41", "L42", "exited"}
        /\ iters = 0
        /\ ~Called("glfwWindowShouldClose")
        /\ \A c \in {"bgfx::setViewClear", "bgfx::setViewRect", "bgfx::touch",
                     "bgfx::frame", "bgfx::shutdown"} : ~Called(c)
        /\ view0 = UnsetView
        /\ pc = "L41" => (released["window"] = 0 /\ released["glfw"] = 0)
        /\ pc = "L42" =>
             /\ LastCalls(1) = <<"glfwDestroyWindow">>
             /\ released["window"] = 1 /\ released["glfw"] = 0
        /\ Exited =>
             /\ exitStatus = 1
             /\ LastCalls(2) = <<"glfwDestroyWindow", "glfwTerminate">>
             /\ released["window"] = 1 /\ released["glfw"] = 1

C6_Witness == failed = "bgfx" /\ Exited /\ released["window"] = 1

\* C7: the exit status is 1 iff one of the three initialization steps failed,
\* and 0 iff the loop was entered and left through the close-requested flag
\* with the full teardown done; no other status is produced.
C7_ExitStatus ==
    Exited =>
        /\ exitStatus \in {0, 1}
        /\ exitStatus = 1 <=> failed \in {"glfw", "window", "bgfx"}
        /\ exitStatus = 0 <=>
             /\ iters >= 1
             /\ shouldClose
             /\ LastCalls(4) = <<"glfwWindowShouldClose">> \o FullTeardown
             /\ released = [r \in Resources |-> 1]

C7_Witness == Exited /\ exitStatus = 0 /\ failed = "none"

\* C8 as stated: a press of Escape during an iteration ends the loop within
\* one iteration of the press (no second later iteration is entered), with
\* the teardown done before exit.
C8_Original ==
    /\ escPressIter >= 1 => iters <= escPressIter + 1
    /\ (Exited /\ escPressIter >= 1) => LastCalls(3) = FullTeardown

\* what the key check and the steps after it do
C8_Step ==
    /\ (pc = "L59" /\ escKey = "PRESS" /\ pc' # "L59") => pc' = "L61"
    /\ (pc = "L59" /\ escKey = "RELEASE" /\ pc' # "L59") => pc' = "L52"
    /\ (pc = "L61" /\ pc' # "L61") => (shouldClose' /\ pc' = "L52")
    /\ (pc = "L52" /\ shouldClose /\ pc' # "L52") => (pc' = "L65" /\ iters' = iters)

\* once the key check has signalled the window to close
C8_State ==
    Called("glfwSetWindowShouldClose") =>
        /\ Count("glfwSetWindowShouldClose") = 1
        /\ shouldClose
        /\ pc \in {"L52", "L65", "L66", "L67", "exited"}
        /\ pc = "L52" => LastCalls(1) = <<"glfwSetWindowShouldClose">>
        /\ pc = "L65" =>
             LastCalls(2) = <<"glfwSetWindowShouldClose", "glfwWindowShouldClose">>
        /\ Exited =>
             /\ exitStatus = 0
             /\ LastCalls(5) = <<"glfwSetWindowShouldClose", "glfwWindowShouldClose">>
                                 \o FullTeardown

\* C8 (amended): if Escape is in the pressed state when the key check of an
\* iteration runs, the window is signalled to close, the very next evaluation
\* of the loop condition leaves the loop without a further poll, touch or
\* frame, and the teardown is performed before the process exits.
C8_EscapeHeldAtCheck == []C8_State /\ [][C8_Step]_vars

C8_Witness ==
    /\ Exited
    /\ Called("glfwSetWindowShouldClose")
    /\ escPressIter >= 1
    /\ closeSeenIter = -1

\* C9: when the OS close control is used, the loop observes the flag at the
\* next evaluation of the loop condition after the poll that delivered the
\* request, leaves the loop, tears down and exits with status 0.
C9_OsClose ==
    closeSeenIter # -1 =>
        /\ shouldClose
        /\ iters = closeSeenIter
        /\ Count("glfwPollEvents") = closeSeenIter
        /\ pc \in {"L56", "L57", "L59", "L61", "L52", "L65", "L66", "L67", "exited"}
        /\ pc \in {"L56", "L57", "L59", "L61", "L52"} =>
             Count("glfwWindowShouldClose") = closeSeenIter
        /\ pc \in {"L65", "L66", "L67", "exited"} =>
             Count("glfwWindowShouldClose") = closeSeenIter + 1
        /\ Exited =>
             /\ exitStatus = 0
             /\ LastCalls(4) = <<"glfwWindowShouldClose">> \o FullTeardown
             /\ released = [r \in Resources |-> 1]

\* the window was closed by the OS control alone and the process has exited
C9_Witness ==
    /\ Exited
    /\ closeSeenIter >= 1
    /\ ~Called("glfwSetWindowShouldClose")

\* number of times a loop step has run; it has not yet run in the current
\* iteration while pc is at one of the lines in notYet
StepsDone(notYet) == IF pc \in notYet THEN iters - 1 ELSE iters

\* C10: every iteration performs poll, touch, frame, key check, close check
\* exactly once in that order; every frame submission is preceded in the
\* same iteration by a poll and a touch, and iterations do not overlap.
C10_IterationOrder ==
    /\ Count("glfwPollEvents") = StepsDone({"L54"})
    /\ Count("bgfx::touch") = StepsDone({"L54", "L56"})
    /\ Count("bgfx::frame") = StepsDone({"L54", "L56", "L57"})
    /\ Count("glfwGetKey") = StepsDone({"L54", "L56", "L57", "L59"})
    /\ Count("glfwWindowShouldClose") =
         IF pc \in {"L65", "L66", "L67"} \/ (Exited /\ failed = "none")
         THEN iters + 1
         ELSE iters
    /\ \A i \in 1..Len(calls) :
         /\ calls[i] = "glfwPollEvents" => (i > 1 /\ calls[i-1] = "glfwWindowShouldClose")
         /\ calls[i] = "bgfx::touch" => (i > 1 /\ calls[i-1] = "glfwPollEvents")
         /\ calls[i] = "bgfx::frame" =>
              (i > 3 /\ calls[i-1] = "bgfx::touch" /\ calls[i-2] = "glfwPollEvents"
                     /\ calls[i-3] = "glfwWindowShouldClose")
         /\ calls[i] = "glfwGetKey" => (i > 1 /\ calls[i-1] = "bgfx::frame")
         /\ calls[i] = "glfwSetWindowShouldClose" => (i > 1 /\ calls[i-1] = "glfwGetKey")
         /\ calls[i] = "glfwWindowShouldClose" =>
              (i > 1 /\ calls[i-1] \in {"printf", "glfwGetKey", "glfwSetWindowShouldClose"})

\* two complete iterations have run and a third has started
C10_Witness == iters = 3 /\ pc = "L57" /\ Count("bgfx::frame") = 2

\* view 0 as lines 46-47 configure it
ConfiguredView ==
    [flags |-> BGFX_CLEAR_COLOR + BGFX_CLEAR_DEPTH, rgba |-> ClearRgba,
     depth |-> ClearDepth, stencil |-> ClearStencil,
     x |-> 0, y |-> 0, w |-> WindowWidth, h |-> WindowHeight]

LoopLines == {"L52", "L54", "L56", "L57", "L59", "L61"}

\* C11: the frame loop never changes the clear configuration or the
\* viewport: after any number of iterations and any window events, resizes
\* included, view 0 is exactly as configured once before the loop.
C11_ViewConfigStable ==
    /\ pc \in LoopLines \cup {"L65"} =>
         /\ view0 = ConfiguredView
         /\ view0.flags = 3
         /\ view0.rgba = 808464639
         /\ <<view0.x, view0.y, view0.w, view0.h>> = <<0, 0, 800, 600>>
    /\ Count("bgfx::setViewClear") <= 1
    /\ Count("bgfx::setViewRect") <= 1

\* the window has been resized and a later iteration is about to submit its frame
C11_Witness ==
    /\ pc = "L57"
    /\ iters >= 2
    /\ winSize = ResizedSize
    /\ Count("bgfx::frame") >= 1

\* the release call that goes with each resource
ReleaseCall(r) ==
    CASE r = "bgfx"   -> "bgfx::shutdown"
      [] r = "window" -> "glfwDestroyWindow"
      [] r = "glfw"   -> "glfwTerminate"

\* the calls made by the step being taken
NewCalls == {calls'[i] : i \in (Len(calls) + 1)..Len(calls')}

\* a step releases only what is held, once, and makes no release call for
\* a resource that is absent
C12_Step ==
    \A r \in Resources :
        /\ released'[r] \in {released[r], released[r] + 1}
        /\ released'[r] > released[r] => Held(r)
        /\ (Len(calls') > Len(calls) /\ ReleaseCall(r) \in NewCalls) => Held(r)

\* whatever subset was acquired, a resource that is absent has had no release
\* call and no release, and nothing is released twice
C12_State ==
    \A r \in Resources :
        /\ acquired[r] = 0 => (released[r] = 0 /\ ~Called(ReleaseCall(r)))
        /\ released[r] <= 1
        /\ Count(ReleaseCall(r)) <= 1

\* C12: the teardown can run whatever subset of resources has been
\* acquired: an absent context or window is left alone and no resource is
\* released twice.
C12_TeardownOnAnySubset == []C12_State /\ [][C12_Step]_vars

\* teardown has run with only the windowing layer acquired
C12_Witness ==
    /\ Exited
    /\ acquired = [r \in Resources |-> IF r = "glfw" THEN 1 ELSE 0]
    /\ released["glfw"] = 1

\* the close-requested flag goes up only in the poll that delivers an OS close
\* or in the statement guarded by the Escape check, and the loop is left only
\* with the flag up
C13_Step ==
    /\ (~shouldClose /\ shouldClose') =>
          \/ (pc = "L54" /\ InSeq("close", osQueue))
          \/ (pc = "L61" /\ escKey = "PRESS")
    /\ (pc \in LoopLines /\ pc' \notin LoopLines) => (pc = "L52" /\ shouldClose /\ pc' = "L65")

\* the loop has been left only after an OS close was delivered or Escape was pressed
C13_State ==
    /\ (pc \in {"L65", "L66", "L67"} \/ (Exited /\ failed = "none")) =>
          /\ shouldClose
          /\ (closeSeenIter # -1 \/ Called("glfwSetWindowShouldClose"))
    /\ Called("glfwSetWindowShouldClose") => escPressIter # -1
    /\ (closeSeenIter = -1 /\ escPressIter = -1) => (~shouldClose /\ pc \notin {"L65", "L66", "L67"})

\* C13: the loop leaves Running only when the close-requested flag is set,
\* and the flag is set only by an OS close delivered by polling or by the
\* Escape check; no other key or event and no iteration count ends the loop.
C13_OnlyCloseOrEscape == []C13_State /\ [][C13_Step]_vars

\* every event of the run was another key or a resize, all were polled, and
\* the loop is still running
C13_Witness ==
    /\ pc = "L52"
    /\ iters >= 2
    /\ nEvents = MaxEvents
    /\ osQueue = <<>>
    /\ escPressIter = -1
    /\ closeSeenIter = -1
    /\ winSize = ResizedSize
    /\ ~shouldClose

InitCalls == <<"glfwInit", "glfwCreateWindow", "bgfx::init">>

\* the initialization steps that come after step k
LaterInitCalls(k) == {InitCalls[j] : j \in (k + 1)..Len(InitCalls)}

\* position of the failed step among the three
FailedStep ==
    CASE failed = "glfw"   -> 1
      [] failed = "window" -> 2
      [] failed = "bgfx"   -> 3
      [] OTHER             -> 0

C14_State ==
    /\ \A k \in 1..Len(InitCalls) : Count(InitCalls[k]) <= 1
    /\ Len(stderrLog) <= 1
    /\ failed # "none" =>
         /\ Count(InitCalls[FailedStep]) = 1
         /\ \A c \in LaterInitCalls(FailedStep) : ~Called(c)
         /\ Len(stderrLog) = 1
         /\ iters = 0
         /\ pc \in {"L22", "L41", "L42", "exited"}

\* after a failure no initialization call is made and the failure stands
C14_Step ==
    failed # "none" =>
        /\ failed' = failed
        /\ \A k \in 1..Len(InitCalls) : InitCalls[k] \notin NewCalls

\* C14: each initialization step is attempted at most once per run; a
\* failure is fatal and never retried (no second renderer backend is tried)
\* and no later initialization step is executed after it.
C14_NoRetry == []C14_State /\ [][C14_Step]_vars

\* graphics init failed after a single attempt and the process has exited
C14_Witness ==
    /\ Exited
    /\ failed = "bgfx"
    /\ Count("bgfx::init") = 1
    /\ exitStatus = 1

C15_State ==
    /\ acquired["window"] <= 1
    /\ acquired["bgfx"] <= 1
    /\ released["bgfx"] <= 1
    /\ Count("glfwCreateWindow") <= 1
    /\ Count("bgfx::init") <= 1
    /\ Count("bgfx::shutdown") <= 1
    /\ Count("bgfx::setPlatformData") <= 1
    /\ Called("bgfx::setPlatformData") =>
         (window \in WindowPtrs /\ pdNwh = glfwGetWin32Window(window))
    /\ ~Called("bgfx::setPlatformData") => pdNwh = 0

\* the window held by main and the bound handle never change once set
C15_Step ==
    /\ window # NullPtr => window' = window
    /\ pdNwh # 0 => pdNwh' = pdNwh

\* C15: at most one window is created and at most one graphics context is
\* initialized and torn down; the native handle bound into the platform
\* data is that window's handle and is never rebound.
C15_SingleWindowSingleContext == []C15_State /\ [][C15_Step]_vars

\* the context bound to the second possible window object has been torn down
C15_Witness ==
    /\ window = 2
    /\ pdNwh = glfwGetWin32Window(2)
    /\ acquired["bgfx"] = 1
    /\ released["bgfx"] = 1
    /\ iters >= 1

\* graphics calls that need a live context, and windowing calls that need a
\* live windowing layer
GraphicsUseCalls == {"bgfx::setViewClear", "bgfx::setViewRect", "bgfx::touch",
                     "bgfx::frame", "bgfx::shutdown"}
WindowingUseCalls == {"glfwWindowHint", "glfwCreateWindow", "glfwGetWin32Window",
                      "glfwWindowShouldClose", "glfwPollEvents", "glfwGetKey",
                      "glfwSetWindowShouldClose", "glfwDestroyWindow", "glfwTerminate"}

\* every call made by a step finds the layer it belongs to live
C16_Step ==
    /\ \A c \in NewCalls :
         /\ c \in GraphicsUseCalls => Held("bgfx")
         /\ c \in WindowingUseCalls => Held("glfw")
    /\ (pc \notin LoopLines /\ pc' \in LoopLines) =>
         /\ \A r \in Resources : acquired'[r] = 1 /\ released'[r] = 0
         /\ failed' = "none"

C16_State ==
    /\ pc \in LoopLines =>
         /\ \A r \in Resources : Held(r)
         /\ failed = "none"
         /\ Called("bgfx::init")
    /\ \A i, j \in 1..Len(calls) :
         /\ (calls[i] = "bgfx::shutdown" /\ calls[j] \in GraphicsUseCalls /\ i # j) => j < i
         /\ (calls[i] = "glfwTerminate" /\ calls[j] \in WindowingUseCalls /\ i # j) => j < i

\* C16: Running is entered only after all three initialization steps
\* succeeded; set clear, set viewport, touch, frame and shutdown happen only
\* while the context is initialized, and no windowing call follows the
\* termination of the windowing layer.
C16_CallsWithinLifetime == []C16_State /\ [][C16_Step]_vars

\* the loop ran and the context has just been shut down
C16_Witness ==
    /\ pc = "L66"
    /\ iters >= 1
    /\ Count("bgfx::frame") >= 1
    /\ ~Held("bgfx")

\* the key check signals the window to close exactly when the recorded key
\* state is PRESS as the check runs
C17_Step ==
    /\ (pc = "L59" /\ pc' # "L59") => ((pc' = "L61") <=> (escKey = "PRESS"))
    /\ "glfwSetWindowShouldClose" \in NewCalls => (pc = "L61" /\ escKey = "PRESS")
    /\ "glfwGetKey" \in NewCalls =>
         /\ LastCalls(1) = <<"bgfx::frame">>
         /\ escKey' = escKey

C17_State ==
    /\ pc = "L61" => escKey = "PRESS"
    /\ Called("glfwSetWindowShouldClose") => escKey = "PRESS"
    /\ (pc = "L52" /\ LastCalls(1) = <<"glfwGetKey">>) => escKey = "RELEASE"

\* C17: the Escape check is level-triggered on the key state as of the
\* check: the window is signalled to close by the key check iff Escape is
\* recorded as pressed when the check runs after the frame submission, so a
\* press whose release was already polled does not close the window.
C17_LevelTriggered == []C17_State /\ [][C17_Step]_vars

\* Escape was pressed and released, both were polled, the key check of
\* that iteration ran, and the window is not closing
C17_Witness ==
    /\ pc = "L52"
    /\ LastCalls(1) = <<"glfwGetKey">>
    /\ escPressIter >= 0
    /\ ~physEsc
    /\ osQueue = <<>>
    /\ escKey = "RELEASE"
    /\ ~shouldClose

\* C18: after successful initialization, pressing any key in the console
\* makes the program exit, as its start-up message announces: once the
\* message is out and a console key has been typed, the next evaluation of
\* the loop condition leaves the loop.
C18_ConsoleKeyExits ==
    [][(/\ stdoutLog = <<MsgInitOk, MsgPressAnyKey>>
        /\ stdinPending > 0
        /\ pc = "L52"
        /\ pc' # "L52") => pc' = "L65"]_vars

\* the flag never goes down, and with the flag up the loop condition leaves the loop
C19_Step ==
    /\ shouldClose => shouldClose'
    /\ (pc = "L52" /\ shouldClose /\ "glfwWindowShouldClose" \in NewCalls) =>
         (pc' = "L65" /\ iters' = iters)
    /\ (pc = "L52" /\ ~shouldClose /\ "glfwWindowShouldClose" \in NewCalls) => pc' = "L54"

\* the flag is down until the loop condition has been evaluated once
C19_State ==
    /\ ~Called("glfwWindowShouldClose") => ~shouldClose
    /\ (pc \in {"L65", "L66", "L67"} \/ (Exited /\ failed = "none")) => shouldClose

\* C19: the close-requested flag is monotonic: it is false when the loop
\* condition is first evaluated and nothing clears it once set, so the next
\* evaluation of the loop condition after it is set leaves the loop.
C19_FlagMonotonic == []C19_State /\ [][C19_Step]_vars

\* an OS close was delivered, the key check then ran with Escape released,
\* and the loop has been left
C19_Witness ==
    /\ pc = "L65"
    /\ closeSeenIter >= 1
    /\ escKey = "RELEASE"
    /\ shouldClose

\* C20: when all three initialization steps succeed at least one complete
\* iteration runs before exit: the flag cannot be set before the first
\* poll, and at exit with status 0 the frames submitted equal the polls
\* and are at least 1.
C20_AtLeastOneFrame ==
    /\ ~Called("glfwPollEvents") => ~shouldClose
    /\ (pc \in {"L65", "L66", "L67"}) => Count("bgfx::frame") >= 1
    /\ (Exited /\ (\A r \in Resources : acquired[r] = 1)) =>
         /\ exitStatus = 0
         /\ Count("bgfx::frame") >= 1
         /\ Count("bgfx::frame") = Count("glfwPollEvents")
         /\ Count("bgfx::touch") = Count("glfwPollEvents")
         /\ Count("glfwPollEvents") = iters

\* a close requested before the loop started was delivered by the first
\* poll; the process exited after exactly one frame
C20_Witness ==
    /\ Exited
    /\ exitStatus = 0
    /\ closeSeenIter = 1
    /\ escPressIter = -1
    /\ Count("bgfx::frame") = 1

\* C21: an iteration is never aborted midway: the iteration whose poll
\* delivers an OS close still touches view 0 and submits exactly one more
\* frame before the loop exits, whereas after the Escape check has set the
\* flag no further poll, touch or frame submission is executed.
C21_IterationCompletes ==
    /\ closeSeenIter # -1 =>
         /\ Count("glfwPollEvents") = closeSeenIter
         /\ Count("bgfx::touch") = (IF pc = "L56" THEN closeSeenIter - 1 ELSE closeSeenIter)
         /\ Count("bgfx::frame") =
              (IF pc \in {"L56", "L57"} THEN closeSeenIter - 1 ELSE closeSeenIter)
         /\ pc \in {"L65", "L66", "L67", "exited"} =>
              /\ Count("bgfx::frame") = closeSeenIter
              /\ Count("glfwGetKey") = closeSeenIter
    /\ \A i, j \in 1..Len(calls) :
         (/\ calls[i] = "glfwSetWindowShouldClose"
          /\ calls[j] \in {"glfwPollEvents", "bgfx::touch", "bgfx::frame", "glfwGetKey"})
            => j < i

\* the poll of the second iteration delivered an OS close; that iteration
\* was completed and the loop has been left
C21_Witness ==
    /\ pc = "L65"
    /\ closeSeenIter = 2
    /\ Count("bgfx::touch") = 2
    /\ Count("bgfx::frame") = 2

(* ======================================================================= *)
(* ParallelGameLoop: src/modern-cpp-game-patterns.md lines 913-960         *)
(* ======================================================================= *)

\* a step of ParallelGameLoop leaves everything else alone
PglOnly == UNCHANGED <<mainVars, uf, hist, gpu>>

\* frame_sync_.arrive_and_wait() by thread t: the last of the three to
\* arrive completes the phase and goes on to line `after`; the others block
ArriveAndWait(t, after) ==
    IF pgl.arrived + 1 = BarrierCount
    THEN [pgl EXCEPT !.arrived = 0, !.gen = @ + 1, !.pc[t] = after]
    ELSE [pgl EXCEPT !.arrived = @ + 1, !.waitGen[t] = pgl.gen, !.pc[t] = "blocked"]

\* where a thread continues after the barrier
AfterBarrier(t) == IF t = "render" THEN "L950" ELSE "while"

\* lines 927-928 (physics): while (running_) { auto& data = frame_data_[write_index_];
PhysicsLoad ==
    /\ pgl.pc["physics"] = "while"
    /\ pgl.frame["physics"] < MaxFrames
    /\ pgl' = [pgl EXCEPT !.data_idx = pgl.write_index,
                          !.frame["physics"] = @ + 1,
                          !.pc["physics"] = "L930"]
    /\ PglOnly

\* line 930: simulate_physics(data.transforms) writes the buffer chosen at line 928
PhysicsSimulate ==
    /\ pgl.pc["physics"] = "L930"
    /\ pgl' = [pgl EXCEPT !.frameW = Append(@, pgl.data_idx),
                          !.pc["physics"] = "L931"]
    /\ PglOnly

\* line 931: frame_sync_.arrive_and_wait();
PhysicsArrive ==
    /\ pgl.pc["physics"] = "L931"
    /\ pgl' = ArriveAndWait("physics", AfterBarrier("physics"))
    /\ PglOnly

\* lines 936-937 (ai): while (running_) { update_all_ai();
AiUpdate ==
    /\ pgl.pc["ai"] = "while"
    /\ pgl.frame["ai"] < MaxFrames
    /\ pgl' = [pgl EXCEPT !.frame["ai"] = @ + 1, !.pc["ai"] = "L938"]
    /\ PglOnly

\* line 938: frame_sync_.arrive_and_wait();
AiArrive ==
    /\ pgl.pc["ai"] = "L938"
    /\ pgl' = ArriveAndWait("ai", AfterBarrier("ai"))
    /\ PglOnly

\* lines 943-945 (render): while (running_) { int read_idx = 1 - write_index_.load();
RenderLoad ==
    /\ pgl.pc["render"] = "while"
    /\ pgl.frame["render"] < MaxFrames
    /\ pgl' = [pgl EXCEPT !.read_idx = 1 - pgl.write_index,
                          !.frame["render"] = @ + 1,
                          !.pc["render"] = "L947"]
    /\ PglOnly

\* line 947: submit_draws(...) reads the buffer chosen at line 944
RenderSubmit ==
    /\ pgl.pc["render"] = "L947"
    /\ pgl' = [pgl EXCEPT !.frameR = Append(@, pgl.read_idx),
                          !.pc["render"] = "L948"]
    /\ PglOnly

\* line 948: frame_sync_.arrive_and_wait();
RenderArrive ==
    /\ pgl.pc["render"] = "L948"
    /\ pgl' = ArriveAndWait("render", AfterBarrier("render"))
    /\ PglOnly

\* line 950: write_index_.store(read_idx);
RenderStore ==
    /\ pgl.pc["render"] = "L950"
    /\ pgl' = [pgl EXCEPT !.write_index = pgl.read_idx, !.pc["render"] = "while"]
    /\ PglOnly

\* a thread blocked in arrive_and_wait returns once its phase has completed
BarrierReturn ==
    /\ \E t \in PglThreads :
         /\ pgl.pc[t] = "blocked"
         /\ pgl.gen > pgl.waitGen[t]
         /\ pgl' = [pgl EXCEPT !.pc[t] = AfterBarrier(t)]
    /\ PglOnly

PglNext ==
    \/ PhysicsLoad
    \/ PhysicsSimulate
    \/ PhysicsArrive
    \/ AiUpdate
    \/ AiArrive
    \/ RenderLoad
    \/ RenderSubmit
    \/ RenderArrive
    \/ RenderStore
    \/ BarrierReturn

PglSpec == Init /\ [][PglNext]_vars

\* C22: ParallelGameLoop renders last frame's data while physics writes
\* new data: in every frame the buffer index read by render_thread differs
\* from the index written by physics_thread.
C22_BuffersDiffer ==
    \A n \in 1..MaxFrames :
        (n <= Len(pgl.frameW) /\ n <= Len(pgl.frameR)) => pgl.frameW[n] # pgl.frameR[n]

(* ======================================================================= *)
(* update_frame: src/modern-cpp-game-patterns.md lines 962-983             *)
(* ======================================================================= *)

UfOnly == UNCHANGED <<mainVars, pgl, hist, gpu>>

\* lines 963-964: update_frame(dt) is called; std::latch work_done{2};
UfCall ==
    /\ uf.pc["main"] = "idle"
    /\ uf.call < MaxUpdateCalls
    /\ \E dt \in FrameTimes :
         uf' = [uf EXCEPT !.pc["main"] = "L966", !.latch = LatchCount,
                          !.call = @ + 1, !.dt = dt, !.order = <<>>]
    /\ UfOnly

\* line 966: std::jthread t1([&] {...}); the thread starts running
UfSpawnT1 ==
    /\ uf.pc["main"] = "L966"
    /\ uf' = [uf EXCEPT !.pc["main"] = "L971", !.pc["t1"] = "L967"]
    /\ UfOnly

\* line 971: std::jthread t2([&] {...});
UfSpawnT2 ==
    /\ uf.pc["main"] = "L971"
    /\ uf' = [uf EXCEPT !.pc["main"] = "L977", !.pc["t2"] = "L972"]
    /\ UfOnly

\* line 977: process_input();
UfProcessInput ==
    /\ uf.pc["main"] = "L977"
    /\ uf' = [uf EXCEPT !.pc["main"] = "L980", !.order = Append(@, "process_input")]
    /\ UfOnly

\* mutant of UfWait: the latch is treated as open with one task outstanding
UfWait_OneShort ==
    /\ uf.pc["main"] = "L980"
    /\ uf.latch <= 1
    /\ uf' = [uf EXCEPT !.pc["main"] = "L982"]
    /\ UfOnly

\* line 980: work_done.wait(); returns once the counter is zero
UfWait ==
    /\ uf.pc["main"] = "L980"
    /\ uf.latch = 0
    /\ uf' = [uf EXCEPT !.pc["main"] = "L982"]
    /\ UfOnly

\* line 982: render_frame();
UfRender ==
    /\ uf.pc["main"] = "L982"
    /\ uf' = [uf EXCEPT !.pc["main"] = "L983", !.order = Append(@, "render_frame")]
    /\ UfOnly

\* line 983: leaving the function joins t2, then t1 (reverse order of
\* declaration), and update_frame returns
UfJoinT2 ==
    /\ uf.pc["main"] = "L983"
    /\ uf.pc["t2"] = "finished"
    /\ uf' = [uf EXCEPT !.pc["main"] = "join_t1", !.pc["t2"] = "idle"]
    /\ UfOnly

UfJoinT1 ==
    /\ uf.pc["main"] = "join_t1"
    /\ uf.pc["t1"] = "finished"
    /\ uf' = [uf EXCEPT !.pc["main"] = "idle", !.pc["t1"] = "idle"]
    /\ UfOnly

\* line 967: update_particle_systems(dt);
UfParticles ==
    /\ uf.pc["t1"] = "L967"
    /\ uf' = [uf EXCEPT !.pc["t1"] = "L968",
                        !.order = Append(@, "update_particle_systems")]
    /\ UfOnly

\* line 968: work_done.count_down(); the lambda returns
UfT1CountDown ==
    /\ uf.pc["t1"] = "L968"
    /\ uf' = [uf EXCEPT !.pc["t1"] = "finished", !.latch = @ - 1]
    /\ UfOnly

\* line 972: update_animation_blending(dt);
UfAnimation ==
    /\ uf.pc["t2"] = "L972"
    /\ uf' = [uf EXCEPT !.pc["t2"] = "L973",
                        !.order = Append(@, "update_animation_blending")]
    /\ UfOnly

\* line 973: work_done.count_down(); the lambda returns
UfT2CountDown ==
    /\ uf.pc["t2"] = "L973"
    /\ uf' = [uf EXCEPT !.pc["t2"] = "finished", !.latch = @ - 1]
    /\ UfOnly

UfMainStep ==
    \/ UfCall
    \/ UfSpawnT1
    \/ UfSpawnT2
    \/ UfProcessInput
    \/ UfWait
    \/ UfRender
    \/ UfJoinT2
    \/ UfJoinT1

UfT1Step ==
    \/ UfParticles
    \/ UfT1CountDown

UfT2Step ==
    \/ UfAnimation
    \/ UfT2CountDown

UfNext ==
    \/ UfMainStep
    \/ UfT1Step
    \/ UfT2Step

UfSpec == Init /\ [][UfNext]_vars

\* every thread that can run is eventually scheduled
UfFairSpec ==
    UfSpec /\ WF_vars(UfMainStep) /\ WF_vars(UfT1Step) /\ WF_vars(UfT2Step)

UfDone(what) == \E i \in 1..Len(uf.order) : uf.order[i] = what

UfTasks == {"update_particle_systems", "update_animation_blending"}

\* render_frame comes after both tasks and after process_input
C23_State ==
    /\ uf.pc["main"] \in {"L982", "L983", "join_t1"} =>
         /\ uf.latch = 0
         /\ \A w \in UfTasks \cup {"process_input"} : UfDone(w)
         /\ uf.pc["t1"] \in {"finished", "idle"}
         /\ uf.pc["t2"] \in {"finished", "idle"}
    /\ \A i \in 1..Len(uf.order) :
         uf.order[i] = "render_frame" =>
            /\ i = 4
            /\ \A w \in UfTasks \cup {"process_input"} :
                 \E j \in 1..(i - 1) : uf.order[j] = w
    /\ uf.latch \in 0..LatchCount
    /\ (uf.pc["t1"] = "finished" /\ uf.pc["t2"] = "finished") => uf.latch = 0

\* C23: in update_frame render_frame() starts only after both parallel
\* tasks have completed and after process_input(), under every
\* interleaving; the latch wait does not block forever: the main thread
\* waiting at the latch always gets to render_frame().
C23_RenderAfterTasks ==
    /\ []C23_State
    /\ (uf.pc["main"] = "L980") ~> (uf.pc["main"] = "L982")

\* the main thread reached the latch first, waited, and has now rendered
\* in the second call
C23_Witness ==
    /\ uf.call = 2
    /\ uf.order = <<"process_input", "update_animation_blending",
                    "update_particle_systems", "render_frame">>

(* ======================================================================= *)
(* MoveEntityCommand and CommandHistory:                                   *)
(* src/modern-cpp-game-patterns.md lines 639-685                           *)
(* ======================================================================= *)

HistOnly == UNCHANGED <<mainVars, pgl, uf, gpu>>

\* lines 645-646: MoveEntityCommand(e, new_pos); old_pos_ is not read
\* before execute() assigns it. id stands for the identity of the object
\* owned by the unique_ptr.
MoveEntityCommand(id, e, new_pos) ==
    [id |-> id, entity |-> e, old_pos |-> 0, new_pos |-> new_pos]

\* mutant of CmdExecute: old_pos_ is captured after the move
CmdExecute_CaptureAfter(cmd, pos) ==
    [cmd |-> [cmd EXCEPT !.old_pos = cmd.new_pos],
     pos |-> [pos EXCEPT ![cmd.entity] = cmd.new_pos]]

\* lines 648-651: MoveEntityCommand::execute()
CmdExecute(cmd, pos) ==
    [cmd |-> [cmd EXCEPT !.old_pos = pos[cmd.entity]],
     pos |-> [pos EXCEPT ![cmd.entity] = cmd.new_pos]]

\* lines 653-655: MoveEntityCommand::undo()
CmdUndo(cmd, pos) == [pos EXCEPT ![cmd.entity] = cmd.old_pos]

Top(stack) == stack[Len(stack)]
Pop(stack) == SubSeq(stack, 1, Len(stack) - 1)

\* mutant of ExecuteOp: the redo stack survives a new command
ExecuteOp_KeepsRedo(h, cmd) ==
    LET r == CmdExecute(cmd, h.pos)
    IN  [h EXCEPT !.pos = r.pos,
                  !.undo_stack = Append(@, r.cmd)]

\* lines 663-668: CommandHistory::execute(cmd)
ExecuteOp(h, cmd) ==
    LET r == CmdExecute(cmd, h.pos)
    IN  [h EXCEPT !.pos = r.pos,
                  !.undo_stack = Append(@, r.cmd),
                  !.redo_stack = <<>>]

\* lines 670-676: CommandHistory::undo()
UndoOp(h) ==
    IF h.undo_stack = <<>>
    THEN h
    ELSE LET cmd == Top(h.undo_stack)
         IN  [h EXCEPT !.undo_stack = Pop(@),
                       !.pos = CmdUndo(cmd, h.pos),
                       !.redo_stack = Append(@, cmd)]

\* lines 678-684: CommandHistory::redo()
RedoOp(h) ==
    IF h.redo_stack = <<>>
    THEN h
    ELSE LET cmd == Top(h.redo_stack)
             r   == CmdExecute(cmd, h.pos)
         IN  [h EXCEPT !.redo_stack = Pop(@),
                       !.pos = r.pos,
                       !.undo_stack = Append(@, r.cmd)]

\* history.execute(std::make_unique<MoveEntityCommand>(e, p))
HistExecute ==
    /\ hist.nExec < MaxCommands
    /\ \E e \in Entities, p \in Positions :
         hist' = [ExecuteOp(hist, MoveEntityCommand(hist.nExec + 1, e, p))
                    EXCEPT !.nExec = @ + 1,
                           !.posBeforeLast = hist.pos,
                           !.prevOp = hist.lastOp,
                           !.lastOp = "execute"]
    /\ HistOnly

\* history.undo()
HistUndo ==
    /\ hist' = [UndoOp(hist)
                  EXCEPT !.onlyExecutes = FALSE,
                         !.prevOp = hist.lastOp,
                         !.lastOp = "undo",
                         !.snap = [pos          |-> hist.pos,
                                   undo_stack   |-> hist.undo_stack,
                                   redo_stack   |-> hist.redo_stack,
                                   onlyExecutes |-> hist.onlyExecutes]]
    /\ HistOnly

\* history.redo()
HistRedo ==
    /\ hist' = [RedoOp(hist)
                  EXCEPT !.onlyExecutes = FALSE,
                         !.prevOp = hist.lastOp,
                         !.lastOp = "redo"]
    /\ HistOnly

HistNext ==
    \/ HistExecute
    \/ HistUndo
    \/ HistRedo

HistSpec == Init /\ [][HistNext]_vars

Ids(stack) == [i \in 1..Len(stack) |-> stack[i].id]

HistHeld(h) == Len(h.undo_stack) + Len(h.redo_stack)

C24_ExecuteStep ==
    /\ hist'.redo_stack = <<>>
    /\ Len(hist'.undo_stack) = Len(hist.undo_stack) + 1
    /\ Pop(hist'.undo_stack) = hist.undo_stack
    /\ Top(hist'.undo_stack).id = hist'.nExec

C24_UndoStep ==
    IF hist.undo_stack = <<>>
    THEN /\ hist'.undo_stack = hist.undo_stack
         /\ hist'.redo_stack = hist.redo_stack
         /\ hist'.pos = hist.pos
    ELSE /\ Ids(hist'.undo_stack) = Pop(Ids(hist.undo_stack))
         /\ Ids(hist'.redo_stack) =
               Append(Ids(hist.redo_stack), Top(hist.undo_stack).id)
         /\ HistHeld(hist') = HistHeld(hist)

C24_RedoStep ==
    IF hist.redo_stack = <<>>
    THEN /\ hist'.undo_stack = hist.undo_stack
         /\ hist'.redo_stack = hist.redo_stack
         /\ hist'.pos = hist.pos
    ELSE /\ Ids(hist'.redo_stack) = Pop(Ids(hist.redo_stack))
         /\ Ids(hist'.undo_stack) =
               Append(Ids(hist.undo_stack), Top(hist.redo_stack).id)
         /\ HistHeld(hist') = HistHeld(hist)

\* C24: CommandHistory::execute always leaves the redo stack empty and the
\* new command on top of the undo stack; undo() with an empty undo stack
\* and redo() with an empty redo stack change neither stack nor any
\* position; otherwise undo and redo move the top command from one stack
\* to the other, so the number of commands held stays the same.
C24_StackDiscipline ==
    [][ /\ (hist' # hist /\ hist'.lastOp = "execute") => C24_ExecuteStep
        /\ (hist' # hist /\ hist'.lastOp = "undo") => C24_UndoStep
        /\ (hist' # hist /\ hist'.lastOp = "redo") => C24_RedoStep ]_vars

\* an execute has just discarded a non-empty redo stack
C24_Witness ==
    /\ hist.lastOp = "execute"
    /\ hist.prevOp = "undo"
    /\ hist.redo_stack = <<>>
    /\ Len(hist.undo_stack) = 2
    /\ hist.nExec = 3

\* C25: after a sequence of executes only, undo() puts every entity back
\* at the position it had before the most recently executed command, and
\* undo() followed immediately by redo() leaves the positions and both
\* stacks exactly as they were before the undo.
C25_UndoRedoRoundTrip ==
    /\ (hist.lastOp = "undo" /\ hist.snap.onlyExecutes
          /\ hist.snap.undo_stack # <<>>)
         => hist.pos = hist.posBeforeLast
    /\ (hist.lastOp = "redo" /\ hist.prevOp = "undo"
          /\ hist.snap.onlyExecutes)
         => /\ hist.pos = hist.snap.pos
            /\ hist.undo_stack = hist.snap.undo_stack
            /\ hist.redo_stack = hist.snap.redo_stack

\* two moves of the same entity, then undo and redo of the second
C25_Witness ==
    /\ hist.lastOp = "redo"
    /\ hist.prevOp = "undo"
    /\ hist.snap.onlyExecutes
    /\ Len(hist.undo_stack) = 2
    /\ hist.undo_stack[1].entity = hist.undo_stack[2].entity
    /\ hist.undo_stack[2].old_pos = 1
    /\ hist.pos[hist.undo_stack[2].entity] = 2

(* ======================================================================= *)
(* VertexBuffer (src/modern-cpp-game-patterns.md lines 69-108) and         *)
(* GLHandle (lines 994-1016)                                               *)
(* ======================================================================= *)

GpuOnly == UNCHANGED <<mainVars, pgl, uf, hist>>

\* glGenBuffers(1, &id_) / CreateFn(1, &id_): a name not handed out
\* before; each creation gets its own number
GenName(g) == g.nextId

\* glDeleteBuffers(1, &id_) / DestroyFn(1, &id_)
DeleteName(g, id) == [g EXCEPT !.deleted[id] = @ + 1]

\* lines 105-107: VertexBuffer::destroy()
Destroy(g, o) ==
    IF g.obj[o].id # 0 THEN DeleteName(g, g.obj[o].id) ELSE g

\* lines 74-82: VertexBuffer(vertices)
VbConstruct ==
    /\ gpu.nextId <= MaxHandles
    /\ \E o \in VbSlots, n \in VertexCounts :
         /\ ~gpu.obj[o].alive
         /\ gpu' = [gpu EXCEPT
                      !.obj[o] = [alive |-> TRUE, id |-> GenName(gpu),
                                  size |-> n, moved |-> FALSE],
                      !.nextId = @ + 1,
                      !.lastOp = "construct"]
    /\ GpuOnly

\* mutant of VbMoveConstruct: the source keeps its id_
VbMoveConstruct_CopiesId ==
    /\ \E o \in VbSlots, other \in VbSlots :
         /\ ~gpu.obj[o].alive
         /\ gpu.obj[other].alive
         /\ gpu' = [gpu EXCEPT
                      !.obj[o] = [alive |-> TRUE, id |-> gpu.obj[other].id,
                                  size |-> gpu.obj[other].size,
                                  moved |-> FALSE],
                      !.obj[other].moved = TRUE,
                      !.lastOp = "move_construct"]
    /\ GpuOnly

\* lines 89-91: VertexBuffer(VertexBuffer&& other)
VbMoveConstruct ==
    /\ \E o \in VbSlots, other \in VbSlots :
         /\ ~gpu.obj[o].alive
         /\ gpu.obj[other].alive
         /\ gpu' = [gpu EXCEPT
                      !.obj[o] = [alive |-> TRUE, id |-> gpu.obj[other].id,
                                  size |-> gpu.obj[other].size,
                                  moved |-> FALSE],
                      !.obj[other].id = 0,
                      !.obj[other].size = 0,
                      !.obj[other].moved = TRUE,
                      !.lastOp = "move_construct"]
    /\ GpuOnly

\* lines 93-100: VertexBuffer::operator=(VertexBuffer&& other)
VbMoveAssign ==
    /\ \E o \in VbSlots, other \in VbSlots :
         /\ gpu.obj[o].alive
         /\ gpu.obj[other].alive
         /\ IF o # other
            THEN gpu' = [Destroy(gpu, o) EXCEPT
                           !.obj[o].id = gpu.obj[other].id,
                           !.obj[o].size = gpu.obj[other].size,
                           !.obj[o].moved = FALSE,
                           !.obj[other].id = 0,
                           !.obj[other].size = 0,
                           !.obj[other].moved = TRUE,
                           !.lastOp = "move_assign"]
            ELSE gpu' = [gpu EXCEPT !.lastOp = "self_assign"]
    /\ GpuOnly

\* line 102: ~VertexBuffer()
VbDestruct ==
    /\ \E o \in VbSlots :
         /\ gpu.obj[o].alive
         /\ gpu' = [Destroy(gpu, o) EXCEPT
                      !.obj[o] = [alive |-> FALSE, id |-> 0, size |-> 0,
                                  moved |-> FALSE],
                      !.lastOp = IF gpu.obj[o].moved THEN "destruct_moved"
                                 ELSE "destruct"]
    /\ GpuOnly

\* line 999: GLHandle()
GlConstruct ==
    /\ gpu.nextId <= MaxHandles
    /\ \E o \in GlSlots :
         /\ ~gpu.obj[o].alive
         /\ gpu' = [gpu EXCEPT
                      !.obj[o] = [alive |-> TRUE, id |-> GenName(gpu),
                                  size |-> 0, moved |-> FALSE],
                      !.nextId = @ + 1,
                      !.lastOp = "construct"]
    /\ GpuOnly

\* line 1005: GLHandle(GLHandle&& o)
GlMoveConstruct ==
    /\ \E this \in GlSlots, o \in GlSlots :
         /\ ~gpu.obj[this].alive
         /\ gpu.obj[o].alive
         /\ gpu' = [gpu EXCEPT
                      !.obj[this] = [alive |-> TRUE, id |-> gpu.obj[o].id,
                                     size |-> 0, moved |-> FALSE],
                      !.obj[o].id = 0,
                      !.obj[o].moved = TRUE,
                      !.lastOp = "move_construct"]
    /\ GpuOnly

\* lines 1006-1012: GLHandle::operator=(GLHandle&& o)
GlMoveAssign ==
    /\ \E this \in GlSlots, o \in GlSlots :
         /\ gpu.obj[this].alive
         /\ gpu.obj[o].alive
         /\ IF this # o
            THEN gpu' = [(IF gpu.obj[this].id # 0
                          THEN DeleteName(gpu, gpu.obj[this].id)
                          ELSE gpu) EXCEPT
                           !.obj[this].id = gpu.obj[o].id,
                           !.obj[this].moved = FALSE,
                           !.obj[o].id = 0,
                           !.obj[o].moved = TRUE,
                           !.lastOp = "move_assign"]
            ELSE gpu' = [gpu EXCEPT !.lastOp = "self_assign"]
    /\ GpuOnly

\* line 1000: ~GLHandle()
GlDestruct ==
    /\ \E o \in GlSlots :
         /\ gpu.obj[o].alive
         /\ gpu' = [(IF gpu.obj[o].id # 0
                     THEN DeleteName(gpu, gpu.obj[o].id)
                     ELSE gpu) EXCEPT
                      !.obj[o] = [alive |-> FALSE, id |-> 0, size |-> 0,
                                  moved |-> FALSE],
                      !.lastOp = IF gpu.obj[o].moved THEN "destruct_moved"
                                 ELSE "destruct"]
    /\ GpuOnly

GpuNext ==
    \/ VbConstruct
    \/ VbMoveConstruct
    \/ VbMoveAssign
    \/ VbDestruct
    \/ GlConstruct
    \/ GlMoveConstruct
    \/ GlMoveAssign
    \/ GlDestruct

GpuSpec == Init /\ [][GpuNext]_vars

\* the objects currently holding handle id
Holders(id) == {o \in Slots : gpu.obj[o].alive /\ gpu.obj[o].id = id}

\* C26: for VertexBuffer and GLHandle, after any sequence of
\* constructions, move constructions, move assignments (self-assignment
\* included) and destructions, every handle id created is held by exactly
\* one live object and not deleted, or held by none and deleted exactly
\* once; a moved-from object holds id 0; so no id is deleted twice, and
\* once every object is destroyed no id is left undeleted.
C26_DeletedExactlyOnce ==
    /\ \A id \in 1..MaxHandles :
         IF id < gpu.nextId
         THEN Cardinality(Holders(id)) + gpu.deleted[id] = 1
         ELSE Holders(id) = {} /\ gpu.deleted[id] = 0
    /\ \A o \in Slots : gpu.obj[o].moved => gpu.obj[o].id = 0
    /\ (\A o \in Slots : ~gpu.obj[o].alive) =>
          \A id \in 1..(gpu.nextId - 1) : gpu.deleted[id] = 1

\* all handles were created, a moved-from object was just destroyed, and
\* every object is gone
C26_Witness ==
    /\ gpu.nextId = MaxHandles + 1
    /\ gpu.lastOp = "destruct_moved"
    /\ \A o \in Slots : ~gpu.obj[o].alive
    /\ \A id \in 1..MaxHandles : gpu.deleted[id] = 1

====
